---- MODULE Spec2Model ----
(***************************************************************************)
(* Model of src/main.cpp: a period-avoiding binary code.  encode turns an  *)
(* n-bit vector into an (n+1)-bit vector none of whose l-windows has a     *)
(* minimal period below p; decode inverts it.  C++ vectors are 0-indexed;  *)
(* the model keeps the code's 0-based indices and reads them through At.   *)
(***************************************************************************)
EXTENDS Integers, Sequences, FiniteSets, TLC

VARIABLES
    n,      \* main/encode/decode: the size of the input
    l,      \* the window size
    p,      \* the period bound
    v,      \* main: the input vector under test
    out,    \* encode: the working vector; afterwards main's `encoded`
    i,      \* encode: the window start of the for loop
    found,  \* encode: whether the current pass corrected a window
    in,     \* decode: the working vector; afterwards main's `decoded`
    pc,     \* position of the program
    err,    \* which assertion failed ("none" while none has)
    ncorr,  \* number of corrections encode has applied so far
    passes, \* encode: the working vector at the start of each pass so far
    hist,   \* encode: one record per correction applied, in order
    tests,  \* encode: the window starts tested so far in the current pass
    unw,    \* decode: one record per iteration of its loop, in order
    s,      \* argument of a call of a utility or period routine
    val,    \* integer argument of toBinary
    w,      \* representation size N of toBinary / fromBinary
    res     \* result of the last call

vars == <<n, l, p, v, out, i, found, in, pc, err, ncorr, passes, hist, tests,
          unw, s, val, w, res>>

-----------------------------------------------------------------------------
(* Bounds of the model *)

\* largest input size n of the encode/decode runs
MaxN == 10
\* how far above min_l the window size l of a run may lie
MaxSlack == 1
\* the count of corrections stops counting here
MaxCorr == 5
\* longest vector handed to the period routines on their own
MaxLen == 6
\* largest representation size of toBinary / fromBinary on their own
MaxW == 4

Bit == {0, 1}

\* all bit vectors of length k
BitVectors(k) == [1..k -> Bit]

\* 0-based element access, as the code's operator[]
At(vec, k) == vec[k + 1]

\* 0-based half-open range [a, b) of vec, as vi(begin + a, begin + b)
Slice(vec, a, b) == SubSeq(vec, a + 1, b)

RECURSIVE Pow2(_)
Pow2(k) == IF k <= 0 THEN 1 ELSE 2 * Pow2(k - 1)

\* ceil(log2(m)) for m >= 1: the least k with 2^k >= m
RECURSIVE CeilLog2From(_, _)
CeilLog2From(m, k) == IF Pow2(k) >= m THEN k ELSE CeilLog2From(m, k + 1)

CeilLog2(m) == CeilLog2From(m, 0)

-----------------------------------------------------------------------------
(* Util: toBinary / fromBinary *)

\* (x & (1 << j)) >> j for a non-negative int x
BitOf(x, j) == (x \div Pow2(j)) % 2

\* toBinary with the most significant bit first
toBinaryBigEndian(x, N) == [k \in 1..N |-> BitOf(x, N - k)]

toBinary(x, N) == [k \in 1..N |-> BitOf(x, k - 1)]

RECURSIVE fromBinaryLoop(_, _, _, _)
fromBinaryLoop(bin, N, j, acc) ==
    IF j >= N THEN acc
    ELSE fromBinaryLoop(bin, N, j + 1, acc + At(bin, j) * Pow2(j))

\* fromBinary reading the most significant bit first
fromBinaryBigEndian(bin, N) ==
    fromBinaryLoop([k \in 1..N |-> bin[N + 1 - k]], N, 0, 0)

fromBinary(bin, N) == fromBinaryLoop(bin, N, 0, 0)

-----------------------------------------------------------------------------
(* Period computation *)

\* the extension loop stopping one position before the end of s
RECURSIVE ZExtendStopEarly(_, _, _)
ZExtendStopEarly(vec, L, R) ==
    IF R < Len(vec) - 1 /\ At(vec, R - L) = At(vec, R)
    THEN ZExtendStopEarly(vec, L, R + 1)
    ELSE R

\* while (R < n && s[R-L] == s[R]) R++
RECURSIVE ZExtend(_, _, _)
ZExtend(vec, L, R) ==
    IF R < Len(vec) /\ At(vec, R - L) = At(vec, R)
    THEN ZExtend(vec, L, R + 1)
    ELSE R

\* ComputeZ's loop reusing z[k-1] also when it reaches the end of the box
\* (z[k-1] <= R-i+1 for z[k-1] < R-i+1)
RECURSIVE ZLoopReuseAtEdge(_, _, _, _, _)
ZLoopReuseAtEdge(vec, z, L, R, k) ==
    IF k >= Len(vec) THEN z
    ELSE IF k > R
    THEN LET R2 == ZExtend(vec, k, k)
         IN ZLoopReuseAtEdge(vec, [z EXCEPT ![k] = R2 - k], k, R2 - 1, k + 1)
    ELSE LET kk == k - L
         IN IF z[kk] <= R - k + 1
            THEN ZLoopReuseAtEdge(vec, [z EXCEPT ![k] = z[kk]], L, R, k + 1)
            ELSE LET R2 == ZExtend(vec, k, R)
                 IN ZLoopReuseAtEdge(vec, [z EXCEPT ![k] = R2 - k],
                                     k, R2 - 1, k + 1)

\* the for loop of ComputeZ; z[k] of the model is z[k-1] of the code
RECURSIVE ZLoop(_, _, _, _, _)
ZLoop(vec, z, L, R, k) ==
    IF k >= Len(vec) THEN z
    ELSE IF k > R
    THEN LET R2 == ZExtend(vec, k, k)
         IN ZLoop(vec, [z EXCEPT ![k] = R2 - k], k, R2 - 1, k + 1)
    ELSE LET kk == k - L
         IN IF z[kk] < R - k + 1
            THEN ZLoop(vec, [z EXCEPT ![k] = z[kk]], L, R, k + 1)
            ELSE LET R2 == ZExtend(vec, k, R)
                 IN ZLoop(vec, [z EXCEPT ![k] = R2 - k], k, R2 - 1, k + 1)

ComputeZ(vec) == ZLoop(vec, [k \in 1..Len(vec) |-> 0], 0, 0, 1)

RECURSIVE PeriodsLoop(_, _, _, _)
PeriodsLoop(z, m, k, periods) ==
    IF k > m THEN periods
    ELSE PeriodsLoop(z, m, k + 1,
                     IF k + z[k] = m THEN Append(periods, k) ELSE periods)

ComputePeriods(vec) == PeriodsLoop(ComputeZ(vec), Len(vec), 1, <<>>)

\* std::min_element over a non-empty vector: the first smallest element
RECURSIVE MinElementLoop(_, _, _)
MinElementLoop(vec, k, best) ==
    IF k > Len(vec) THEN best
    ELSE MinElementLoop(vec, k + 1, IF vec[k] < best THEN vec[k] ELSE best)

MinElement(vec) == MinElementLoop(vec, 2, vec[1])

\* ComputeMinPeriod on a non-empty vector
ComputeMinPeriod(vec) == MinElement(ComputePeriods(vec))

\* The values *end() of an empty vector may read: dereferencing the end
\* iterator is undefined, the call may crash or return whatever is there.
GarbageInts == {-1, 0, 1}

\* Every outcome of ComputeMinPeriod: a value, or a crash
ComputeMinPeriodOutcomes(vec) ==
    IF ComputePeriods(vec) = <<>>
    THEN {[kind |-> "crash", value |-> 0]}
         \cup {[kind |-> "value", value |-> g] : g \in GarbageInts}
    ELSE {[kind |-> "value", value |-> ComputeMinPeriod(vec)]}

-----------------------------------------------------------------------------
(* Proposed encoder / decoder *)

\* main: min_l = ceil(log2(n)) + p + 1
MinL(n_, p_) == CeilLog2(n_) + p_ + 1

\* the l - p bits erased at the head of the window instead of its tail
EraseWindowHead(o, i_, l_, p_) ==
    Slice(o, 0, i_) \o Slice(o, i_ + l_ - p_, Len(o))

\* out.erase(out.begin() + i + p, out.begin() + i + l)
EraseRepeated(o, i_, l_, p_) == Slice(o, 0, i_ + p_) \o Slice(o, i_ + l_, Len(o))

\* the marker set one position early, at i + period - 1
MarkPeriodOneEarly(o, i_, period, p_) ==
    [k \in 1..Len(o) |->
        IF k - 1 = i_ + period - 1 THEN 1
        ELSE IF k - 1 > i_ + period - 1 /\ k - 1 < i_ + p_ THEN 0
        ELSE o[k]]

\* the marker set without clearing the bits between it and i + p
MarkPeriodNoClear(o, i_, period, p_) ==
    [k \in 1..Len(o) |-> IF k - 1 = i_ + period THEN 1 ELSE o[k]]

\* out[i + period] = 1; for (j = i + period + 1; j < i + p; j++) out[j] = 0
MarkPeriod(o, i_, period, p_) ==
    [k \in 1..Len(o) |->
        IF k - 1 = i_ + period THEN 1
        ELSE IF k - 1 > i_ + period /\ k - 1 < i_ + p_ THEN 0
        ELSE o[k]]

\* the index inserted with a 1 after it, the flag of the initial vector
AppendIndexFlagOne(o, i_, log2_n) == (o \o toBinary(i_, log2_n)) \o <<1>>

\* the index inserted without the 0 after it
AppendIndexNoFlag(o, i_, log2_n) == o \o toBinary(i_, log2_n)

\* insert the index i and then a 0 at the end
AppendIndex(o, i_, log2_n) == (o \o toBinary(i_, log2_n)) \o <<0>>

\* the body of `if (period < p)` in encode, up to the assertion
Correct(o, i_, period, l_, p_, log2_n) ==
    AppendIndex(MarkPeriod(EraseRepeated(o, i_, l_, p_), i_, period, p_),
                i_, log2_n)

\* the window v_sub of encode and of main's check
Window(o, i_, l_) == Slice(o, i_, i_ + l_)

\* a scan that leaves out the last window start: i < (n+1)-l
ScanEndShort(n_, l_) == (n_ + 1) - l_

\* the bound of the for loops over the window starts: i < (n+1)-(l-1)
ScanEnd(n_, l_) == (n_ + 1) - (l_ - 1)

\* decode: int j = index + p - 1; while (in[j] == 0) j--;
\* a scan that runs off the front of the vector stops at -1
RECURSIVE ScanMarker(_, _)
ScanMarker(vec, j) ==
    IF j < 0 \/ j >= Len(vec) THEN -1
    ELSE IF At(vec, j) = 0 THEN ScanMarker(vec, j - 1)
    ELSE j

\* in.insert(in.begin() + index + p, l-p, 0)
InsertZeros(vec, at, cnt) ==
    (Slice(vec, 0, at) \o [k \in 1..cnt |-> 0]) \o Slice(vec, at, Len(vec))

\* for (i = index + period; i < index + l; i++) in[i] = in[i-period]
RECURSIVE UnwrapLoop(_, _, _, _)
UnwrapLoop(vec, k, stop, period) ==
    IF k >= stop THEN vec
    ELSE UnwrapLoop([vec EXCEPT ![k + 1] = At(vec, k - period)],
                    k + 1, stop, period)

\* the index read from the last bits of the vector with the 0 still on it
ReadIndexWithFlag(vec, log2_n) ==
    fromBinary(Slice(vec, Len(vec) - log2_n, Len(vec)), log2_n)

\* the index read from the tail of decode's vector, after the 0 is removed
ReadIndex(vec, log2_n) ==
    fromBinary(Slice(vec, Len(vec) - 1 - log2_n, Len(vec) - 1), log2_n)

\* vector left after the 0 and the index are erased
DropRecord(vec, log2_n) == Slice(vec, 0, Len(vec) - 1 - log2_n)

\* one iteration of decode's while loop, up to the assertion
Unwind(vec, l_, p_, log2_n) ==
    LET index == ReadIndex(vec, log2_n)
        body == DropRecord(vec, log2_n)
        j == ScanMarker(body, index + p_ - 1)
        period == j - index
    IN UnwrapLoop(InsertZeros(body, index + p_, l_ - p_),
                  index + period, index + l_, period)

\* the position j at which decode's scan for the marker stops
MarkerPos(vec, p_, log2_n) ==
    ScanMarker(DropRecord(vec, log2_n), ReadIndex(vec, log2_n) + p_ - 1)

\* whether decode's scan for the marker finds a 1 inside the vector
MarkerFound(vec, p_, log2_n) ==
    ScanMarker(DropRecord(vec, log2_n), ReadIndex(vec, log2_n) + p_ - 1) >= 0

-----------------------------------------------------------------------------
(* The driver: main's loop body for one input, with n, l, p as parameters *)

\* the configurations: p >= 1, l >= min_l, and l <= n + 1 so that a window exists
Configs(maxn) ==
    {c \in [n : 1..maxn, p : 1..maxn, l : 1..(maxn + 1)] :
        /\ c.l >= MinL(c.n, c.p)
        /\ c.l <= MinL(c.n, c.p) + MaxSlack
        /\ c.l <= c.n + 1}

Idle ==
    /\ s = <<>> /\ val = 0 /\ w = 0 /\ res = 0

Init ==
    /\ n = 0 /\ l = 0 /\ p = 0
    /\ v = <<>> /\ out = <<>> /\ in = <<>>
    /\ i = 0 /\ found = FALSE
    /\ pc = "start" /\ err = "none" /\ ncorr = 0 /\ passes = <<>>
    /\ hist = <<>> /\ tests = <<>> /\ unw = <<>>
    /\ Idle

\* main fixes the parameters and constructs the input
MainConstruct ==
    /\ pc = "start"
    /\ \E c \in Configs(MaxN) : n' = c.n /\ l' = c.l /\ p' = c.p
    /\ v' \in BitVectors(n')
    /\ pc' = "main"
    /\ UNCHANGED <<out, i, found, in, err, ncorr, passes, hist, tests, unw, s, val, w, res>>

\* encode starting from the input with a 0 at the end
EncodeCallFlagZero ==
    /\ pc = "main"
    /\ out' = Append(v, 0)
    /\ i' = 0 /\ found' = FALSE
    /\ passes' = <<Append(v, 0)>>
    /\ tests' = <<>>
    /\ pc' = "encode"
    /\ UNCHANGED <<n, l, p, v, in, err, ncorr, hist, unw, s, val, w, res>>

\* main calls encode: out = in with a 1 at the end, first pass starts
EncodeCall ==
    /\ pc = "main"
    /\ out' = Append(v, 1)
    /\ i' = 0 /\ found' = FALSE
    /\ passes' = <<Append(v, 1)>>
    /\ tests' = <<>>
    /\ pc' = "encode"
    /\ UNCHANGED <<n, l, p, v, in, err, ncorr, hist, unw, s, val, w, res>>

\* an iteration that goes back to window start 0 after a correction
EncodeIterateRestart ==
    /\ pc = "encode"
    /\ i < ScanEnd(n, l)
    /\ LET period == ComputeMinPeriod(Window(out, i, l))
       IN IF period < p
          THEN LET o2 == Correct(out, i, period, l, p, CeilLog2(n))
               IN /\ out' = o2
                  /\ ncorr' = IF ncorr < MaxCorr THEN ncorr + 1 ELSE ncorr
                  /\ hist' = IF Len(hist) < MaxCorr
                             THEN Append(hist, [pass |-> Len(passes),
                                                idx |-> i, period |-> period,
                                                before |-> out, after |-> o2])
                             ELSE hist
                  /\ IF Len(o2) = n + 1
                     THEN found' = TRUE /\ i' = 0 /\ UNCHANGED <<pc, err>>
                     ELSE pc' = "abort" /\ err' = "encode_size"
                          /\ UNCHANGED <<found, i>>
          ELSE i' = i + 1 /\ UNCHANGED <<out, found, pc, err, ncorr, hist>>
    /\ tests' = IF Len(tests) <= n THEN Append(tests, i) ELSE tests
    /\ UNCHANGED <<n, l, p, v, in, passes, unw, s, val, w, res>>

\* one iteration of encode's for loop, at window start i
EncodeIterate ==
    /\ pc = "encode"
    /\ i < ScanEnd(n, l)
    /\ LET period == ComputeMinPeriod(Window(out, i, l))
       IN IF period < p
          THEN LET o2 == Correct(out, i, period, l, p, CeilLog2(n))
               IN /\ out' = o2
                  /\ ncorr' = IF ncorr < MaxCorr THEN ncorr + 1 ELSE ncorr
                  /\ hist' = IF Len(hist) < MaxCorr
                             THEN Append(hist, [pass |-> Len(passes),
                                                idx |-> i, period |-> period,
                                                before |-> out, after |-> o2])
                             ELSE hist
                  /\ IF Len(o2) = n + 1
                     THEN found' = TRUE /\ i' = i + 1 /\ UNCHANGED <<pc, err>>
                     ELSE pc' = "abort" /\ err' = "encode_size"
                          /\ UNCHANGED <<found, i>>
          ELSE i' = i + 1 /\ UNCHANGED <<out, found, pc, err, ncorr, hist>>
    /\ tests' = Append(tests, i)
    /\ UNCHANGED <<n, l, p, v, in, passes, unw, s, val, w, res>>

\* the for loop is over and the pass corrected a window: next pass
EncodeRescan ==
    /\ pc = "encode"
    /\ i >= ScanEnd(n, l)
    /\ found
    /\ found' = FALSE /\ i' = 0
    /\ passes' = Append(passes, out)
    /\ tests' = <<>>
    /\ UNCHANGED <<n, l, p, v, out, in, pc, err, ncorr, hist, unw, s, val, w, res>>

\* the for loop is over and the pass corrected nothing: encode returns out
EncodeReturn ==
    /\ pc = "encode"
    /\ i >= ScanEnd(n, l)
    /\ ~found
    /\ pc' = "encoded"
    /\ UNCHANGED <<n, l, p, v, out, i, found, in, err, ncorr, passes, hist, tests, unw, s, val, w, res>>

\* main verifies that the encoded vector satisfies the period requirement
MainVerify ==
    /\ pc = "encoded"
    /\ IF \A k \in 0..(ScanEnd(n, l) - 1) :
             ComputeMinPeriod(Window(out, k, l)) >= p
       THEN pc' = "verified" /\ UNCHANGED err
       ELSE pc' = "abort" /\ err' = "period"
    /\ UNCHANGED <<n, l, p, v, out, i, found, in, ncorr, passes, hist, tests, unw, s, val, w, res>>

\* main calls decode: in = out
DecodeCall ==
    /\ pc = "verified"
    /\ in' = out
    /\ pc' = "decode"
    /\ UNCHANGED <<n, l, p, v, out, i, found, err, ncorr, passes, hist, tests, unw, s, val, w, res>>

\* one iteration of decode's while loop
DecodeUnwind ==
    /\ pc = "decode"
    /\ At(in, n) = 0
    /\ IF MarkerFound(in, p, CeilLog2(n))
       THEN LET in2 == Unwind(in, l, p, CeilLog2(n))
                index == ReadIndex(in, CeilLog2(n))
                j == MarkerPos(in, p, CeilLog2(n))
            IN /\ in' = in2
               /\ unw' = IF Len(unw) < MaxCorr
                         THEN Append(unw, [idx |-> index, j |-> j,
                                           period |-> j - index,
                                           after |-> in2])
                         ELSE unw
               /\ IF Len(in2) = n + 1
                  THEN UNCHANGED <<pc, err>>
                  ELSE pc' = "abort" /\ err' = "decode_size"
       ELSE pc' = "abort" /\ err' = "decode_scan" /\ UNCHANGED <<in, unw>>
    /\ UNCHANGED <<n, l, p, v, out, i, found, ncorr, passes, hist, tests, s, val, w, res>>

\* the last bit is 1: decode drops it and returns
DecodeReturn ==
    /\ pc = "decode"
    /\ At(in, n) # 0
    /\ in' = Slice(in, 0, Len(in) - 1)
    /\ pc' = "decoded"
    /\ UNCHANGED <<n, l, p, v, out, i, found, err, ncorr, passes, hist, tests, unw, s, val, w, res>>

\* main: assert(decoded == v)
MainCompare ==
    /\ pc = "decoded"
    /\ IF in = v
       THEN pc' = "done" /\ UNCHANGED err
       ELSE pc' = "abort" /\ err' = "roundtrip"
    /\ UNCHANGED <<n, l, p, v, out, i, found, in, ncorr, passes, hist, tests, unw, s, val, w, res>>

Next ==
    \/ MainConstruct
    \/ EncodeCall
    \/ EncodeIterate
    \/ EncodeRescan
    \/ EncodeReturn
    \/ MainVerify
    \/ DecodeCall
    \/ DecodeUnwind
    \/ DecodeReturn
    \/ MainCompare

Spec == Init /\ [][Next]_vars

-----------------------------------------------------------------------------
(* The utility and period routines called on their own *)

\* the encode/decode state is not in use
NoRun ==
    /\ n = 0 /\ l = 0 /\ p = 0
    /\ v = <<>> /\ out = <<>> /\ in = <<>>
    /\ i = 0 /\ found = FALSE
    /\ err = "none" /\ ncorr = 0 /\ passes = <<>>
    /\ hist = <<>> /\ tests = <<>> /\ unw = <<>>

\* all bit vectors of length 0..maxlen
BitVectorsUpTo(maxlen) == UNION {BitVectors(k) : k \in 0..maxlen}

InitUtil ==
    /\ NoRun
    /\ pc = "call"
    /\ s \in BitVectorsUpTo(MaxLen)
    /\ w \in 0..MaxW
    /\ val \in 0..(Pow2(w) - 1)
    /\ res = [op |-> "none", kind |-> "none", value |-> 0]

CallComputeZ ==
    /\ pc = "call"
    /\ res' = [op |-> "ComputeZ", kind |-> "value", value |-> ComputeZ(s)]
    /\ pc' = "returned"
    /\ UNCHANGED <<n, l, p, v, out, i, found, in, err, ncorr, passes, hist, tests, unw, s, val, w>>

CallComputePeriods ==
    /\ pc = "call"
    /\ res' = [op |-> "ComputePeriods", kind |-> "value",
               value |-> ComputePeriods(s)]
    /\ pc' = "returned"
    /\ UNCHANGED <<n, l, p, v, out, i, found, in, err, ncorr, passes, hist, tests, unw, s, val, w>>

CallComputeMinPeriod ==
    /\ pc = "call"
    /\ \E o \in ComputeMinPeriodOutcomes(s) :
           res' = [op |-> "ComputeMinPeriod", kind |-> o.kind,
                   value |-> o.value]
    /\ pc' = "returned"
    /\ UNCHANGED <<n, l, p, v, out, i, found, in, err, ncorr, passes, hist, tests, unw, s, val, w>>

CallToBinary ==
    /\ pc = "call"
    /\ res' = [op |-> "toBinary", kind |-> "value", value |-> toBinary(val, w)]
    /\ pc' = "returned"
    /\ UNCHANGED <<n, l, p, v, out, i, found, in, err, ncorr, passes, hist, tests, unw, s, val, w>>

\* fromBinary on the vector toBinary returned
CallFromBinary ==
    /\ pc = "returned"
    /\ res.op = "toBinary"
    /\ res' = [op |-> "fromBinary", kind |-> "value",
               value |-> fromBinary(res.value, w)]
    /\ UNCHANGED <<n, l, p, v, out, i, found, in, pc, err, ncorr, passes, hist, tests, unw, s, val, w>>

NextUtil ==
    \/ CallComputeZ
    \/ CallComputePeriods
    \/ CallComputeMinPeriod
    \/ CallToBinary
    \/ CallFromBinary

SpecUtil == InitUtil /\ [][NextUtil]_vars

-----------------------------------------------------------------------------
(* One correction of encode followed by one iteration of decode's loop, *)
(* from any vector of length n+1 and any window start                    *)

InitStep ==
    /\ \E c \in Configs(MaxN) :
          n = c.n /\ p = c.p /\ l = c.l /\ c.l = MinL(c.n, c.p)
    /\ s \in BitVectors(n + 1)
    /\ i \in 0..(ScanEnd(n, l) - 1)
    /\ out = s /\ in = <<>> /\ v = <<>>
    /\ found = FALSE /\ err = "none" /\ ncorr = 0 /\ passes = <<>>
    /\ hist = <<>> /\ tests = <<>> /\ unw = <<>>
    /\ pc = "step"
    /\ val = 0 /\ w = 0 /\ res = 0

\* the body of `if (period < p)` at window start i
StepCorrect ==
    /\ pc = "step"
    /\ ComputeMinPeriod(Window(out, i, l)) < p
    /\ out' = Correct(out, i, ComputeMinPeriod(Window(out, i, l)),
                      l, p, CeilLog2(n))
    /\ res' = ComputeMinPeriod(Window(out, i, l))
    /\ found' = TRUE
    /\ ncorr' = 1
    /\ pc' = "corrected"
    /\ UNCHANGED <<n, l, p, v, i, in, err, passes, hist, tests, unw, s, val, w>>

\* decode's loop body on the corrected vector
StepUnwind ==
    /\ pc = "corrected"
    /\ IF At(out, n) # 0
       THEN pc' = "abort" /\ err' = "decode_skip" /\ UNCHANGED in
       ELSE IF MarkerFound(out, p, CeilLog2(n))
       THEN in' = Unwind(out, l, p, CeilLog2(n)) /\ pc' = "unwound"
            /\ UNCHANGED err
       ELSE pc' = "abort" /\ err' = "decode_scan" /\ UNCHANGED in
    /\ UNCHANGED <<n, l, p, v, out, i, found, ncorr, passes, hist, tests, unw, s, val, w, res>>

NextStep == StepCorrect \/ StepUnwind

SpecStep == InitStep /\ [][NextStep]_vars

-----------------------------------------------------------------------------
(* Periods by their definition, for stating the properties *)

\* q is a period of vec: vec[k] = vec[k+q] for all 0 <= k < |vec| - q
IsPeriod(vec, q) ==
    \A k \in 0..(Len(vec) - q - 1) : At(vec, k) = At(vec, k + q)

PeriodSet(vec) == {q \in 1..Len(vec) : IsPeriod(vec, q)}

\* every period of vec is at least bound
NoPeriodBelow(vec, bound) == \A q \in 1..(bound - 1) : q <= Len(vec) => ~IsPeriod(vec, q)

StrictlyAscending(vec) == \A k \in 1..(Len(vec) - 1) : vec[k] < vec[k + 1]

SeqRange(vec) == {vec[k] : k \in 1..Len(vec)}

\* encode has returned
Returned == pc \in {"encoded", "verified", "decode", "decoded", "done"}

-----------------------------------------------------------------------------
(* Properties *)

\* C1: round trip.  For all valid n, l, p (p >= 1, l >= min_l) and every
\* input v of length n, the run of encode and then decode fails no
\* assertion and decode returns v.
C1_RoundTrip ==
    /\ err = "none"
    /\ pc \in {"decoded", "done"} => in = v

\* C2: period bound.  While a pass of encode has corrected nothing, every
\* window it has tested has no period below p; encode returns only at the
\* end of such a pass (i = n+2-l, found false), and then every window of
\* the returned vector, at every start 0..n+1-l, has no period below p.
C2_PeriodBound ==
    /\ (pc = "encode" /\ ~found) =>
          \A k \in 0..(i - 1) : NoPeriodBelow(SubSeq(out, k + 1, k + l), p)
    /\ Returned =>
          /\ ~found
          /\ i = n + 2 - l
          /\ Len(out) = n + 1
          /\ \A k \in 0..(n + 1 - l) :
                 NoPeriodBelow(SubSeq(out, k + 1, k + l), p)

\* C2 witness: encode returned after at least one correction, and there
\* is more than one window
C2_Witness == pc = "encoded" /\ ncorr >= 1 /\ n + 1 - l >= 1 /\ p >= 2

\* C3: length invariant.  For every l >= min_l every correction leaves the
\* working vector at length n+1 (its net length change is zero), so encode
\* returns a vector of length n+1.
C3_LengthInvariant ==
    /\ (pc \in {"encode", "abort"} /\ ncorr >= 1) => Len(out) = n + 1
    /\ Returned => Len(out) = n + 1

\* C5: for every non-empty s, ComputePeriods(s) is the ascending list of
\* exactly the periods of s; it is not empty and ends with |s|; for
\* s = [1,0,1,0,1,0] it is [2,4,6], and ComputeMinPeriod(s) is 2.
C5_PeriodsExact ==
    (pc = "returned" /\ s # <<>>) =>
        /\ res.op = "ComputePeriods" =>
              /\ StrictlyAscending(res.value)
              /\ SeqRange(res.value) = PeriodSet(s)
              /\ Len(res.value) >= 1
              /\ res.value[Len(res.value)] = Len(s)
              /\ s = <<1, 0, 1, 0, 1, 0>> => res.value = <<2, 4, 6>>
        /\ res.op = "ComputeMinPeriod" =>
              /\ res.kind = "value"
              /\ res.value \in PeriodSet(s)
              /\ \A q \in PeriodSet(s) : res.value <= q
              /\ s = <<1, 0, 1, 0, 1, 0>> => res.value = 2

\* C5 witness: ComputePeriods returned [2,4,6] for [1,0,1,0,1,0]
C5_Witness ==
    /\ pc = "returned" /\ res.op = "ComputePeriods"
    /\ s = <<1, 0, 1, 0, 1, 0>> /\ res.value = <<2, 4, 6>>

\* C6: bit-integer round trip.  For every width w and 0 <= val < 2^w,
\* toBinary(val, w) has exactly w bits with the least significant bit at
\* index 0, and fromBinary of it is val.
C6_BinaryRoundTrip ==
    /\ (pc = "returned" /\ res.op = "toBinary") =>
          /\ Len(res.value) = w
          /\ \A k \in 1..w : res.value[k] \in Bit
          /\ w >= 1 => At(res.value, 0) = val % 2
    /\ (pc = "returned" /\ res.op = "fromBinary") => res.value = val

\* C6 witness: a value with both a set and a clear bit went there and back
C6_Witness ==
    /\ pc = "returned" /\ res.op = "fromBinary"
    /\ w = 3 /\ val = 6 /\ res.value = 6

\* C7: ComputeMinPeriod on the empty vector fails (an error outcome) and
\* returns no period value.
C7_EmptyFails ==
    (pc = "returned" /\ res.op = "ComputeMinPeriod" /\ s = <<>>) =>
        res.kind = "crash"

\* C8: with l = min_l the assertions on the size hold: the working vector
\* has length n+1 after every correction of encode and after every
\* iteration of decode's loop.
C8_SizeAssertions ==
    l = MinL(n, p) =>
        /\ err \notin {"encode_size", "decode_size"}
        /\ pc = "encode" => Len(out) = n + 1
        /\ pc = "decode" => Len(in) = n + 1

\* C8 witness: decode has unwound a correction of a run with l = min_l
C8_Witness ==
    /\ pc = "decode" /\ l = MinL(n, p) /\ ncorr >= 1
    /\ in # out /\ Len(in) = n + 1

\* C9: termination.  For every n >= 2, p >= 1, l = min_l and every input,
\* no pass of encode starts from a working vector an earlier pass of the
\* same run started from: the passes are deterministic, so the corrections
\* neither cycle nor go on for ever (at most 2^(n+1) passes), and the
\* window start of a pass never passes the end of the scan, n+2-l.
C9_EncodeTerminates ==
    (pc = "encode" /\ n >= 2 /\ l = MinL(n, p)) =>
        /\ \A a, b \in 1..Len(passes) : a < b => passes[a] # passes[b]
        /\ \A a \in 1..Len(passes) : passes[a] \in BitVectors(n + 1)
        /\ Len(passes) <= Pow2(n + 1)
        /\ i <= n + 2 - l

\* C9 witness: encode returned in its third pass, after more than one
\* correction
C9_Witness ==
    /\ pc = "encoded" /\ n >= 2 /\ l = MinL(n, p)
    /\ ncorr >= 2 /\ Len(passes) = 3

\* C10: one iteration of decode's loop inverts one correction.  For any S
\* of length n+1 whose window at i has minimal period below p (l = min_l),
\* the iteration runs on the corrected vector and gives S back.
C10_UnwindInvertsCorrect ==
    /\ pc = "corrected" => (Len(out) = n + 1 /\ At(out, n) = 0)
    /\ pc \in {"unwound", "abort"} => (pc = "unwound" /\ in = s)

\* C10 witness: a correction at a window start above 0 was undone
C10_Witness == pc = "unwound" /\ i >= 1 /\ in = s /\ out # s

\* C11: LIFO unwinding.  When decode runs on an output of encode that
\* applied k corrections, its j-th iteration reads the window start of
\* encode's (k-j+1)-th correction and leaves the working vector encode had
\* just before that correction; it never runs more than k iterations, its
\* working vector is always the last of these, and it returns after
\* exactly k.
C11_LifoUnwind ==
    LET k == Len(hist)
    IN /\ pc \in {"decode", "decoded", "done"} =>
             /\ Len(unw) <= k
             /\ \A j \in 1..Len(unw) :
                    /\ unw[j].idx = hist[k - j + 1].idx
                    /\ unw[j].after = hist[k - j + 1].before
       /\ pc = "decode" =>
             in = IF unw = <<>> THEN out ELSE unw[Len(unw)].after
       /\ pc \in {"decoded", "done"} =>
             /\ Len(unw) = k
             /\ k = ncorr

\* C11 witness: decode returned after undoing three corrections made at
\* more than one window start
C11_Witness ==
    /\ pc = "decoded" /\ Len(hist) = 3 /\ Len(unw) = 3
    /\ hist[1].idx # hist[3].idx
    /\ unw[1].idx = hist[3].idx /\ unw[3].idx = hist[1].idx

\* the vector decode's j-th iteration starts from
BeforeUnwind(j) == IF j = 1 THEN out ELSE unw[j - 1].after

\* C12: marker guarantee.  In every iteration of decode's loop on an output
\* of encode the scan for the marker succeeds: it stops at a 1 at a
\* position j with index+1 <= j <= index+p-1, so it reads nothing below
\* index+1, and j - index is the minimal period (by definition, below p)
\* that the matching correction of encode found.
C12_MarkerGuarantee ==
    /\ err # "decode_scan"
    /\ \A j \in 1..Len(unw) :
          LET m == Len(hist) - j + 1
              u == unw[j]
          IN /\ m >= 1
             /\ u.idx + 1 <= u.j
             /\ u.j <= u.idx + p - 1
             /\ At(BeforeUnwind(j), u.j) = 1
             /\ \A k \in (u.j + 1)..(u.idx + p - 1) : At(BeforeUnwind(j), k) = 0
             /\ u.period = hist[m].period
             /\ u.period < p
             /\ u.period \in PeriodSet(SubSeq(hist[m].before, hist[m].idx + 1,
                                              hist[m].idx + l))
             /\ \A q \in PeriodSet(SubSeq(hist[m].before, hist[m].idx + 1,
                                          hist[m].idx + l)) : u.period <= q

\* C12 witness: a scan that had to step down from index+p-1 to a marker
\* which is not directly above index
C12_Witness ==
    /\ pc = "decode" /\ Len(unw) >= 1
    /\ unw[1].j < unw[1].idx + p - 1
    /\ unw[1].period >= 2

\* the least period of vec, by definition (Len(vec) is always a period)
LeastPeriod(vec) ==
    CHOOSE q \in PeriodSet(vec) : \A r \in PeriodSet(vec) : q <= r

\* C13: effect of one correction.  A correction at window start i of a
\* sequence S of length n+1 whose window has minimal period q < p leaves a 1
\* at i+q, zeros at i+q+1 .. i+p-1, and as its tail the ceil(log2 n) bits of
\* i, least significant first, followed by a single 0.
C13_CorrectionEffect ==
    pc = "corrected" =>
        LET q == LeastPeriod(Slice(s, i, i + l))
            width == CeilLog2(n)
            base == Len(out) - width - 1
        IN /\ Len(s) = n + 1
           /\ q < p
           /\ res = q
           /\ At(out, i + q) = 1
           /\ \A k \in (i + q + 1)..(i + p - 1) : At(out, k) = 0
           /\ base >= i + p
           /\ \A k \in 0..(width - 1) : At(out, base + k) = (i \div Pow2(k)) % 2
           /\ At(out, Len(out) - 1) = 0

\* C13 witness: a corrected sequence with zeros forced between the marker
\* and i+p, and an index whose bits are not a palindrome
C13_Witness ==
    /\ pc = "corrected"
    /\ i = 1 /\ CeilLog2(n) >= 2
    /\ res + 1 < p
    /\ \E k \in (i + res + 1)..(i + p - 1) : At(s, k) = 1

\* C14: frame of one correction.  A correction at window start i with
\* minimal period q leaves positions 0 .. i+q-1 as they were and moves the
\* bits of positions i+l .. n, unchanged and in order, to i+p .. n-(l-p);
\* what lies beyond is the appended record, so only i+q .. i+p-1 and the
\* record can differ.
C14_CorrectionFrame ==
    \A m \in 1..Len(hist) :
        LET h == hist[m]
            q == LeastPeriod(Slice(h.before, h.idx, h.idx + l))
        IN /\ Len(h.before) = n + 1
           /\ h.period = q
           /\ \A k \in 0..(h.idx + q - 1) : At(h.after, k) = At(h.before, k)
           /\ \A k \in (h.idx + l)..n :
                  At(h.after, k - (l - p)) = At(h.before, k)
           /\ Len(h.after) = (n - (l - p) + 1) + CeilLog2(n) + 1

\* C14 witness: a correction with bits on both sides of the rewritten
\* range, the moved bits not all equal
C14_Witness ==
    \E m \in 1..Len(hist) :
        LET h == hist[m]
        IN /\ h.idx >= 1
           /\ h.idx + l + 1 <= n
           /\ At(h.before, h.idx + l) # At(h.before, h.idx + l + 1)
           /\ h.period >= 2

\* C15: ordering within a pass.  In one scan of encode the window starts
\* are tested once each, in increasing order; the corrections of one pass
\* are therefore at strictly increasing starts; every correction reads the
\* sequence as the previous correction left it; and one pass can apply more
\* than one correction (the witness).
C15_PassOrdering ==
    /\ pc = "encode" => tests = [k \in 1..i |-> k - 1]
    /\ StrictlyAscending(tests)
    /\ \A k \in 1..Len(tests) : tests[k] >= 0 /\ tests[k] < ScanEnd(n, l)
    /\ hist # <<>> => hist[1].before = Append(v, 1)
    /\ \A m \in 1..Len(hist) :
          /\ hist[m].period =
                 LeastPeriod(Slice(hist[m].before, hist[m].idx, hist[m].idx + l))
          /\ hist[m].pass >= 1
          /\ m > 1 =>
                /\ hist[m].before = hist[m - 1].after
                /\ hist[m - 1].pass <= hist[m].pass
                /\ hist[m - 1].pass = hist[m].pass => hist[m - 1].idx < hist[m].idx
    /\ (pc = "encode" /\ hist # <<>> /\ ncorr < MaxCorr) =>
          /\ out = hist[Len(hist)].after
          /\ hist[Len(hist)].pass = Len(passes) => hist[Len(hist)].idx < i

\* C15 witness: two corrections applied in the same pass, the second to a
\* window the first one changed
C15_Witness ==
    \E m \in 2..Len(hist) :
        /\ hist[m - 1].pass = hist[m].pass
        /\ hist[m - 1].idx < hist[m].idx
        /\ Slice(hist[m].before, hist[m].idx, hist[m].idx + l)
               # Slice(hist[1].before, hist[m].idx, hist[m].idx + l)

\* the last element of a non-empty sequence
Last(vec) == vec[Len(vec)]

\* C16: flag bit.  The last bit of encode's output is 1 exactly when encode
\* applied no correction, and then the output is the input followed by a
\* single 1; once a correction has been applied the working sequence ends in
\* 0 after that and every later correction, and so does the returned output.
C16_FlagBit ==
    /\ Returned =>
          /\ Len(out) = n + 1
          /\ Last(out) = 1 <=> ncorr = 0
          /\ ncorr = 0 => out = Append(v, 1)
          /\ ncorr >= 1 => Last(out) = 0
    /\ pc = "encode" => (Last(out) = 1 <=> ncorr = 0)
    /\ \A m \in 1..Len(hist) : Last(hist[m].after) = 0
    /\ hist # <<>> => Last(hist[1].before) = 1
    /\ (ncorr = 0) <=> (hist = <<>>)

\* C16 witness: encode has returned after corrections in
\* two different passes
C16_Witness ==
    /\ pc = "encoded" /\ ncorr >= 2
    /\ hist[1].pass # hist[2].pass
    /\ Last(out) = 0

\* vec and its suffix starting at k agree on their first j elements
CommonPrefix(vec, k, j) ==
    /\ k + j <= Len(vec)
    /\ \A t \in 0..(j - 1) : At(vec, t) = At(vec, k + t)

\* the length of the longest common prefix of vec and its suffix at k
LongestCommonPrefix(vec, k) ==
    CHOOSE j \in 0..(Len(vec) - k) :
        /\ CommonPrefix(vec, k, j)
        /\ \A j2 \in (j + 1)..(Len(vec) - k) : ~CommonPrefix(vec, k, j2)

\* C17: ComputeZ matches the Z-array definition.  For s of length m >= 1 the
\* returned vector has m entries; the entry with code index i-1, for i in
\* 1..m-1, is the length of the longest common prefix of s and its suffix
\* starting at i; the last entry, code index m-1, is 0.
C17_ZArray ==
    (pc = "returned" /\ res.op = "ComputeZ" /\ Len(s) >= 1) =>
        /\ res.kind = "value"
        /\ Len(res.value) = Len(s)
        /\ \A k \in 1..(Len(s) - 1) :
               res.value[k] = LongestCommonPrefix(s, k)
        /\ res.value[Len(s)] = 0

\* C17 witness: a Z vector with a match of length at least 2 that stops
\* before the end of s, followed by a later non-zero entry
C17_Witness ==
    /\ pc = "returned" /\ res.op = "ComputeZ" /\ Len(s) >= 5
    /\ \E k \in 1..(Len(s) - 1) :
          /\ res.value[k] >= 2
          /\ k + res.value[k] < Len(s)
          /\ \E k2 \in (k + 1)..(Len(s) - 1) : res.value[k2] >= 1

\* C18: range of the recorded index.  Every window start i at which
\* encode applies a correction satisfies 0 <= i <= n+1-l and
\* i < 2^ceil(log2 n), which is toBinary's precondition for the record, and
\* decode reads the same i back from the record.
C18_IndexRange ==
    /\ \A m \in 1..Len(hist) :
          /\ 0 <= hist[m].idx
          /\ hist[m].idx <= n + 1 - l
          /\ hist[m].idx < Pow2(CeilLog2(n))
          /\ Len(hist[m].after) >= CeilLog2(n) + 1
          /\ ReadIndex(hist[m].after, CeilLog2(n)) = hist[m].idx
    /\ \A j \in 1..Len(unw) :
          /\ j <= Len(hist)
          /\ unw[j].idx = hist[Len(hist) - j + 1].idx
          /\ unw[j].idx = ReadIndex(BeforeUnwind(j), CeilLog2(n))

\* C18 witness: decode has read back an index that is the largest window
\* start of its configuration and is not a palindrome in binary
C18_Witness ==
    /\ pc \in {"decode", "decoded"} /\ Len(unw) >= 1
    /\ unw[1].idx = n + 1 - l
    /\ unw[1].idx >= 2
    /\ toBinary(unw[1].idx, CeilLog2(n))
           # [k \in 1..CeilLog2(n) |->
                  toBinary(unw[1].idx, CeilLog2(n))[CeilLog2(n) + 1 - k]]

====
